---- MODULE Spec2Model ----
(***************************************************************************)
(* Model of the password strength analyzer (src/analyzer/analyzer.py).     *)
(*                                                                         *)
(* Strings are sequences of Unicode code points.  Floats are kept in       *)
(* fixed point: a quantity measured in bits or in score points is an       *)
(* integer number of 1/10000 units (Fix(1) is 1.0).  A float that can       *)
(* leave that range (the number of combinations, the crack time) is kept   *)
(* by sign and base-2 logarithm.  A call that raises yields a record whose *)
(* exc field names the exception class; exc = "" is a normal return.       *)
(***************************************************************************)
EXTENDS Integers, Sequences, FiniteSets, TLC

VARIABLES
    pc,                     \* "start" | "constructed" | "analyzed" | "ctor_raised" | "fn"
    password,               \* self.password
    guesses_per_second,     \* self.guesses_per_second
    wordlist_paths,         \* self.wordlist_paths
    common_passwords_path,  \* self.common_passwords_path (<<>> is None, <<p>> is p)
    wordlists,              \* self.wordlists
    common,                 \* self.common
    result,                 \* self.result: <<>> is {}, <<r>> is the report r
    raised,                 \* exception class the last call ended with, "" if none
    calls,                  \* analyze() calls made since the configuration last changed
    arg,                    \* argument of the last direct call of a module function
    ret                     \* what that call returned

vars == <<pc, password, guesses_per_second, wordlist_paths, common_passwords_path,
          wordlists, common, result, raised, calls, arg, ret>>

objvars == <<password, guesses_per_second, wordlist_paths, common_passwords_path,
             wordlists, common, result, calls>>

----------------------------------------------------------------------------
(* Bounds *)

\* longest password enumerated exhaustively over Alphabet
MaxLen == 2
\* longest argument enumerated exhaustively for the direct function calls
MaxArgLen == 3
\* analyze() calls followed on one configuration
MaxCalls == 2
\* longest graded password
MaxGradeLen == 25

----------------------------------------------------------------------------
(* Numbers *)

Fix(n) == n * 10000

Min(a, b) == IF a <= b THEN a ELSE b
Max(a, b) == IF a >= b THEN a ELSE b

\* the exponent from which 2.0 ** x no longer fits a double (sys.float_info.max_exp)
FLOAT_MAX_EXP == 1024

\* math.log2 on the values charset_size can return, in fixed point (floor)
Log2Fix(n) ==
    CASE n = 1  -> 0
      [] n = 10 -> 33219
      [] n = 26 -> 47004
      [] n = 32 -> 50000
      [] n = 36 -> 51699
      [] n = 42 -> 53923
      [] n = 52 -> 57004
      [] n = 58 -> 58579
      [] n = 62 -> 59541
      [] n = 68 -> 60874
      [] n = 84 -> 63923
      [] n = 94 -> 65545

\* round(x, 2) on a fixed-point value: to the nearest 1/100, ties to even
Round2(x) ==
    LET q == x \div 100
        r == x % 100
    IN  IF r > 50 \/ (r = 50 /\ q % 2 = 1) THEN (q + 1) * 100 ELSE q * 100

\* a finite float by sign and log2 of its magnitude, and the infinities
Float(sign, lg) == [kind |-> "finite", sign |-> sign, lg |-> lg]
Inf(sign) == [kind |-> "inf", sign |-> sign, lg |-> 0]

Ok(v) == [exc |-> "", val |-> v]
Raise(e) == [exc |-> e, val |-> <<>>]

----------------------------------------------------------------------------
(* Strings *)

\* a A 1 # newline, ARABIC-INDIC DIGIT THREE (U+0663)
Alphabet == {97, 65, 49, 35, 10, 1635}

Strings(n) == UNION {[1..k -> Alphabet] : k \in 0..n}

Repeat(s, n) == [i \in 1..(n * Len(s)) |-> s[((i - 1) % Len(s)) + 1]]

\* w in s
IsSubstring(w, s) ==
    \E i \in 0..(Len(s) - Len(w)) : \A j \in 1..Len(w) : s[i + j] = w[j]

\* str.lower(): only A-Z have a lowercase form among the characters used here
LowerChar(c) == IF c \in 65..90 THEN c + 32 ELSE c
Lower(s) == [i \in 1..Len(s) |-> LowerChar(s[i])]

\* str.isspace()
IsSpace(c) == c \in (9..13) \cup (28..32) \cup {133, 160}

\* str.strip()
Strip(s) ==
    LET keep == {i \in 1..Len(s) : ~IsSpace(s[i])}
    IN  IF keep = {} THEN <<>>
        ELSE LET lo == CHOOSE i \in keep : \A j \in keep : i <= j
                 hi == CHOOSE i \in keep : \A j \in keep : i >= j
             IN  [i \in 1..(hi - lo + 1) |-> s[lo + i - 1]]

\* what the regular expressions of charset_size match
ReLower(c) == c \in 97..122
ReUpper(c) == c \in 65..90
\* \d on str: every Unicode decimal digit (category Nd), ASCII or not
ReDigit(c) == c \in (48..57) \cup (1632..1641)
ReNotAlnum(c) == ~(c \in 97..122 \/ c \in 65..90 \/ c \in 48..57)
\* . without re.DOTALL: anything but a newline
ReDot(c) == c # 10

----------------------------------------------------------------------------
(* Module constants *)

CHARSET_SIZES == [lower |-> 26, upper |-> 26, digits |-> 10, symbols |-> 32]

\* WEIGHTS[k] * 100, the form every use of WEIGHTS takes
WEIGHTS == [entropy |-> 50, length_bonus |-> 10, dictionary |-> -50,
            patterns |-> -30, breach |-> -100]

\* 1e9: log2(1e9) = 29.8973...
DEFAULT_GUESSES_PER_SEC == Float(1, 298973)

----------------------------------------------------------------------------
(* Module functions *)

charset_size(pw) ==
    LET chars == {pw[i] : i \in 1..Len(pw)}
        size == (IF \E c \in chars : ReLower(c) THEN CHARSET_SIZES.lower ELSE 0)
              + (IF \E c \in chars : ReUpper(c) THEN CHARSET_SIZES.upper ELSE 0)
              + (IF \E c \in chars : ReDigit(c) THEN CHARSET_SIZES.digits ELSE 0)
              + (IF \E c \in chars : ReNotAlnum(c) THEN CHARSET_SIZES.symbols ELSE 0)
    IN  IF size = 0 THEN 1 ELSE size

entropy_bits(pw) ==
    LET cs == charset_size(pw)
    IN  IF cs <= 1 THEN 0 ELSE Len(pw) * Log2Fix(cs)

\* 2 ** entropy_bits raises once the power leaves the doubles; the division
\* raises on a zero divisor and otherwise overflows silently to an infinity
time_to_crack_seconds(ent, gps) ==
    IF ent >= Fix(FLOAT_MAX_EXP) THEN Raise("OverflowError")
    ELSE IF gps.sign = 0 THEN Raise("ZeroDivisionError")
    ELSE IF ent - gps.lg >= Fix(FLOAT_MAX_EXP) THEN Ok(Inf(gps.sign))
    ELSE Ok(Float(gps.sign, ent - gps.lg))

\* The rendered text is kept as the branch taken and the first unit named.
\* In the loop inf // count is nan, and int(nan) raises.
readable_time(seconds) ==
    IF seconds.sign < 0 \/ (seconds.kind = "finite" /\ seconds.lg < 0)
    THEN Ok([form |-> "fraction", first |-> "seconds"])
    ELSE IF seconds.kind = "inf" THEN Raise("ValueError")
    ELSE Ok([form |-> "units",
             first |-> CASE seconds.lg >= 249105 -> "years"
                         [] seconds.lg >= 163987 /\ seconds.lg < 249105 -> "days"
                         [] seconds.lg >= 118138 /\ seconds.lg < 163987 -> "hours"
                         [] seconds.lg >= 59069 /\ seconds.lg < 118138 -> "minutes"
                         [] seconds.lg < 59069 -> "seconds"])

\* The files the paths name.  Iterating a file yields its lines, each with its
\* line break.
FS(path) ==
    CASE path = "missing.txt" -> [kind |-> "absent", lines |-> <<>>]
      [] path = "dir" -> [kind |-> "directory", lines |-> <<>>]
      [] path = "locked.txt" -> [kind |-> "denied", lines |-> <<>>]
      \* "Pass \n", "\n", "a1\n"
      [] path = "words.txt" ->
            [kind |-> "file",
             lines |-> << <<80, 97, 115, 115, 32, 10>>, <<10>>, <<97, 49, 10>> >>]
      \* "password\n", " A\n", "\t\n", "a#"
      [] path = "common.txt" ->
            [kind |-> "file",
             lines |-> << <<112, 97, 115, 115, 119, 111, 114, 100, 10>>,
                          <<32, 65, 10>>, <<9, 10>>, <<97, 35>> >>]

Paths == {"missing.txt", "dir", "locked.txt", "words.txt", "common.txt"}

\* open() raises an OSError subclass by the kind of failure; only
\* FileNotFoundError is caught
load_wordlist(path) ==
    LET f == FS(path)
    IN  CASE f.kind = "absent" -> Ok({})
          [] f.kind = "directory" -> Raise("IsADirectoryError")
          [] f.kind = "denied" -> Raise("PermissionError")
          [] f.kind = "file" ->
                Ok({Lower(Strip(f.lines[i])) :
                        i \in {j \in 1..Len(f.lines) : Strip(f.lines[j]) # <<>>}})

has_repeated_chars(pw) ==
    \E i \in 1..(Len(pw) - 2) :
        /\ ReDot(pw[i])
        /\ pw[i + 1] = pw[i]
        /\ pw[i + 2] = pw[i]

has_sequence(pw, length) ==
    LET pwd == Lower(pw)
    IN  \E i \in 0..(Len(pwd) - length) :
            \A j \in 1..(length - 1) : pwd[i + j + 1] - pwd[i + j] = 1

\* qwerty asdf zxcv 1234 4321 password
keyboard_pattern(pw) ==
    LET patterns == {<<113, 119, 101, 114, 116, 121>>, <<97, 115, 100, 102>>,
                     <<122, 120, 99, 118>>, <<49, 50, 51, 52>>, <<52, 51, 50, 49>>,
                     <<112, 97, 115, 115, 119, 111, 114, 100>>}
    IN  \E p \in patterns : IsSubstring(p, Lower(pw))

\* s.encode('utf-8') rejects lone surrogates; the digest is kept as a tagged
\* copy of the text, which like SHA-1 agrees on two texts only if they are equal
sha1_hex(s) ==
    IF \E i \in 1..Len(s) : s[i] \in 55296..57343
    THEN Raise("UnicodeEncodeError")
    ELSE Ok([sha1 |-> s])

----------------------------------------------------------------------------
(* class PasswordReport *)

\* __init__: the common list is loaded first, then the wordlists in order; an
\* exception of load_wordlist leaves no object
LoadAll(paths) ==
    LET bad == {i \in 1..Len(paths) : load_wordlist(paths[i]).exc # ""}
    IN  IF bad # {}
        THEN Raise(load_wordlist(paths[CHOOSE i \in bad : \A j \in bad : i <= j]).exc)
        ELSE Ok(UNION {load_wordlist(paths[i]).val : i \in 1..Len(paths)})

init(pw, paths, common_path, gps) ==
    LET cm == IF common_path # <<>> THEN load_wordlist(common_path[1]) ELSE Ok({})
        wl == LoadAll(paths)
    IN  IF cm.exc # "" THEN Raise(cm.exc)
        ELSE IF wl.exc # "" THEN Raise(wl.exc)
        ELSE Ok([password |-> pw, guesses_per_second |-> gps, wordlist_paths |-> paths,
                 common_passwords_path |-> common_path, result |-> <<>>,
                 common |-> cm.val, wordlists |-> wl.val])

DictMatch(lower, wl) ==
    IF wl # {} THEN \E w \in wl : IsSubstring(w, lower) ELSE FALSE

\* CommonMatch testing containment the way DictMatch does
CommonMatchSubstring(lower, cm) ==
    IF cm # {} THEN \E w \in cm : IsSubstring(w, lower) ELSE FALSE

CommonMatch(lower, cm) ==
    IF cm # {} THEN lower \in cm ELSE FALSE

LengthBonus(n) ==
    IF n >= 12 THEN Fix(1) ELSE IF n >= 8 THEN Fix(1) \div 2 ELSE 0

\* the entries of cm are taken to be encodable, as everything load_wordlist
\* returns is
Breached(pw, cm) ==
    IF cm = {} THEN Ok(FALSE)
    ELSE IF sha1_hex(pw).exc # "" THEN Raise(sha1_hex(pw).exc)
    ELSE Ok(sha1_hex(pw).val \in {sha1_hex(w).val : w \in cm})

\* RawScore without the breach penalty
RawScoreNoBreach(ent, length_bonus, dict_match, common_match, patterns, breached) ==
    Fix(50)
    + (Min(ent, Fix(80)) * WEIGHTS.entropy) \div 80
    + length_bonus * WEIGHTS.length_bonus
    + (IF dict_match \/ common_match THEN Fix(WEIGHTS.dictionary) ELSE 0)
    + (IF patterns THEN Fix(WEIGHTS.patterns) ELSE 0)

RawScore(ent, length_bonus, dict_match, common_match, patterns, breached) ==
    Fix(50)
    + (Min(ent, Fix(80)) * WEIGHTS.entropy) \div 80
    + length_bonus * WEIGHTS.length_bonus
    + (IF dict_match \/ common_match THEN Fix(WEIGHTS.dictionary) ELSE 0)
    + (IF patterns THEN Fix(WEIGHTS.patterns) ELSE 0)
    + (IF breached THEN Fix(WEIGHTS.breach) ELSE 0)

\* Clamp without the lower limit
ClampNoFloor(score) == Min(Fix(100), score)

Clamp(score) == Max(0, Min(Fix(100), score))

\* _rating with strict comparisons
RatingStrict(score) ==
    IF score > Fix(85) THEN "Excellent"
    ELSE IF score > Fix(70) THEN "Strong"
    ELSE IF score > Fix(50) THEN "Moderate"
    ELSE IF score > Fix(25) THEN "Weak"
    ELSE "Very Weak"

_rating(score) ==
    IF score >= Fix(85) THEN "Excellent"
    ELSE IF score >= Fix(70) THEN "Strong"
    ELSE IF score >= Fix(50) THEN "Moderate"
    ELSE IF score >= Fix(25) THEN "Weak"
    ELSE "Very Weak"

Report(pw, gps, wl, cm, ttc, breached, readable) ==
    LET ent == entropy_bits(pw)
        lower == Lower(pw)
        dict_match == DictMatch(lower, wl)
        common_match == CommonMatch(lower, cm)
        repeated == has_repeated_chars(pw)
        sequence == has_sequence(pw, 4)
        keyboard == keyboard_pattern(pw)
        score == Clamp(RawScore(ent, LengthBonus(Len(pw)), dict_match, common_match,
                                repeated \/ sequence \/ keyboard, breached))
    IN  [password |-> "<redacted>",
         length |-> Len(pw),
         charset_size |-> charset_size(pw),
         entropy_bits |-> Round2(ent),
         time_to_crack_seconds |-> ttc,
         time_to_crack_readable |-> readable,
         guesses_per_second |-> gps,
         dictionary_match |-> dict_match,
         common_password_match |-> common_match,
         repeated_chars |-> repeated,
         sequence_detected |-> sequence,
         keyboard_pattern |-> keyboard,
         breached |-> breached,
         score |-> Round2(score),
         rating |-> _rating(score)]

\* analyze taking the score of the stored report as its baseline
analyzeFromStored(pw, gps, wl, cm) ==
    LET ttc == time_to_crack_seconds(entropy_bits(pw), gps)
        breached == Breached(pw, cm)
        readable == readable_time(ttc.val)
        r == Report(pw, gps, wl, cm, ttc.val, breached.val, readable.val)
    IN  IF ttc.exc # "" THEN Raise(ttc.exc)
        ELSE IF breached.exc # "" THEN Raise(breached.exc)
        ELSE IF readable.exc # "" THEN Raise(readable.exc)
        ELSE IF result = <<>> THEN Ok(r)
        ELSE Ok([r EXCEPT !.score = Clamp(r.score + result[1].score - Fix(50))])

\* analyze: the calls that can raise, in the order the method makes them
analyze(pw, gps, wl, cm) ==
    LET ttc == time_to_crack_seconds(entropy_bits(pw), gps)
        breached == Breached(pw, cm)
        readable == readable_time(ttc.val)
    IN  IF ttc.exc # "" THEN Raise(ttc.exc)
        ELSE IF breached.exc # "" THEN Raise(breached.exc)
        ELSE IF readable.exc # "" THEN Raise(readable.exc)
        ELSE Ok(Report(pw, gps, wl, cm, ttc.val, breached.val, readable.val))

----------------------------------------------------------------------------
(* Inputs *)

\* password, Password, abcd1234, Tr0ub4dor&3, aB3#xY7!qZ5%, aaab, aab, dcba,
\* a lone surrogate (an undecodable byte of the command line), and long ones
ExtraPasswords ==
    {<<112, 97, 115, 115, 119, 111, 114, 100>>,
     <<80, 97, 115, 115, 119, 111, 114, 100>>,
     <<97, 98, 99, 100, 49, 50, 51, 52>>,
     <<84, 114, 48, 117, 98, 52, 100, 111, 114, 38, 51>>,
     <<97, 66, 51, 35, 120, 89, 55, 33, 113, 90, 53, 37>>,
     <<97, 97, 97, 98>>, <<97, 97, 98>>, <<100, 99, 98, 97>>,
     <<55296>>,
     Repeat(<<97>>, 217), Repeat(<<97>>, 218),
     Repeat(<<97, 66, 51, 35>>, 39), Repeat(<<97, 66, 51, 35>>, 40)}

Passwords == Strings(MaxLen) \cup ExtraPasswords

\* 1e9, 1.0, 0.0, -1.0, 1e-300
Rates == {DEFAULT_GUESSES_PER_SEC, Float(1, 0), Float(0, 0), Float(-1, 0),
          Float(1, -9965785)}

WordlistPathChoices ==
    {<<>>, <<"words.txt">>, <<"missing.txt">>, <<"dir">>, <<"words.txt", "missing.txt">>}

CommonPathChoices == {<<>>, <<"common.txt">>, <<"missing.txt">>, <<"locked.txt">>}

\* sets a caller assigns to rpt.common directly: {"password"}, {"A"}
CommonChoices == {{<<112, 97, 115, 115, 119, 111, 114, 100>>}, {<<65>>}}

\* Passwords of every length up to MaxGradeLen for every combination of
\* character classes: a seed repeated to the length, ending as it comes, in
\* "a1" (a word of words.txt) or in "###" (a repeat)
Cycle(seed, n) == [i \in 1..n |-> seed[((i - 1) % Len(seed)) + 1]]

WithTail(s, t) ==
    IF Len(s) < Len(t) THEN s
    ELSE [i \in 1..Len(s) |->
            IF i > Len(s) - Len(t) THEN t[i - (Len(s) - Len(t))] ELSE s[i]]

\* ax AX 17 #% aX a7 a# A7 A# 7# aX7 aX# a7# A7# aX7#
Seeds ==
    {<<97, 120>>, <<65, 88>>, <<49, 55>>, <<35, 37>>,
     <<97, 88>>, <<97, 55>>, <<97, 35>>, <<65, 55>>, <<65, 35>>, <<55, 35>>,
     <<97, 88, 55>>, <<97, 88, 35>>, <<97, 55, 35>>, <<65, 55, 35>>,
     <<97, 88, 55, 35>>}

Tails == {<<>>, <<97, 49>>, <<35, 35, 35>>}

GradedPasswords ==
    {WithTail(Cycle(seed, n), t) : seed \in Seeds, n \in 0..MaxGradeLen, t \in Tails}

----------------------------------------------------------------------------
(* The life of one PasswordReport *)

NoCall == [fn |-> "", exc |-> "", val |-> 0]

Init ==
    /\ pc = "start"
    /\ password = <<>>
    /\ guesses_per_second = DEFAULT_GUESSES_PER_SEC
    /\ wordlist_paths = <<>>
    /\ common_passwords_path = <<>>
    /\ wordlists = {}
    /\ common = {}
    /\ result = <<>>
    /\ raised = ""
    /\ calls = 0
    /\ arg = <<>>
    /\ ret = NoCall

\* rep = PasswordReport(pw, wordlist_paths=paths, common_passwords_path=cp,
\*                      guesses_per_second=gps)
ConstructFrom(PW, PATHS, CP, GPS) ==
    /\ pc = "start"
    /\ \E pw \in PW, paths \in PATHS, cp \in CP, gps \in GPS :
          LET o == init(pw, paths, cp, gps)
          IN  IF o.exc # ""
              THEN /\ pc' = "ctor_raised"
                   /\ raised' = o.exc
                   /\ UNCHANGED objvars
              ELSE /\ pc' = "constructed"
                   /\ raised' = ""
                   /\ password' = o.val.password
                   /\ guesses_per_second' = o.val.guesses_per_second
                   /\ wordlist_paths' = o.val.wordlist_paths
                   /\ common_passwords_path' = o.val.common_passwords_path
                   /\ wordlists' = o.val.wordlists
                   /\ common' = o.val.common
                   /\ result' = o.val.result
                   /\ calls' = 0
    /\ UNCHANGED <<arg, ret>>

Construct == ConstructFrom(Passwords, WordlistPathChoices, CommonPathChoices, Rates)

\* rpt.common = set([...])
SetCommon ==
    /\ pc \in {"constructed", "analyzed"}
    /\ \E c \in CommonChoices : common' = c
    /\ pc' = "constructed"
    /\ raised' = ""
    /\ calls' = 0
    /\ UNCHANGED <<password, guesses_per_second, wordlist_paths, common_passwords_path,
                   wordlists, result, arg, ret>>

\* rep.analyze(): self.result is assigned only when nothing raised
Analyze ==
    /\ pc \in {"constructed", "analyzed"}
    /\ calls < MaxCalls
    /\ LET r == analyze(password, guesses_per_second, wordlists, common)
       IN  /\ raised' = r.exc
           /\ result' = IF r.exc = "" THEN <<r.val>> ELSE result
    /\ pc' = "analyzed"
    /\ calls' = calls + 1
    /\ UNCHANGED <<password, guesses_per_second, wordlist_paths, common_passwords_path,
                   wordlists, common, arg, ret>>

Next == Construct \/ SetCommon \/ Analyze

Spec == Init /\ [][Next]_vars

\* The same life over the graded passwords, at the default rate
ConstructGraded ==
    ConstructFrom(GradedPasswords, {<<>>, <<"words.txt">>}, {<<>>, <<"common.txt">>},
                  {DEFAULT_GUESSES_PER_SEC})

GradedNext == ConstructGraded \/ SetCommon \/ Analyze

GradedSpec == Init /\ [][GradedNext]_vars

----------------------------------------------------------------------------
(* Direct calls of the module functions *)

FnInit ==
    /\ pc = "fn"
    /\ password = <<>>
    /\ guesses_per_second = DEFAULT_GUESSES_PER_SEC
    /\ wordlist_paths = <<>>
    /\ common_passwords_path = <<>>
    /\ wordlists = {}
    /\ common = {}
    /\ result = <<>>
    /\ raised = ""
    /\ calls = 0
    /\ arg = <<>>
    /\ ret = NoCall

Args == Strings(MaxArgLen) \cup ExtraPasswords

CallCharsetSize ==
    /\ \E pw \in Args :
          /\ arg' = pw
          /\ ret' = [fn |-> "charset_size", exc |-> "", val |-> charset_size(pw)]
    /\ UNCHANGED <<pc, raised, objvars>>

CallHasRepeatedChars ==
    /\ \E pw \in Args :
          /\ arg' = pw
          /\ ret' = [fn |-> "has_repeated_chars", exc |-> "",
                     val |-> has_repeated_chars(pw)]
    /\ UNCHANGED <<pc, raised, objvars>>

CallLoadWordlist ==
    /\ \E path \in Paths :
          /\ arg' = <<path>>
          /\ ret' = [fn |-> "load_wordlist", exc |-> load_wordlist(path).exc,
                     val |-> load_wordlist(path).val]
    /\ UNCHANGED <<pc, raised, objvars>>

FnNext == CallCharsetSize \/ CallHasRepeatedChars \/ CallLoadWordlist

FnSpec == FnInit /\ [][FnNext]_vars

----------------------------------------------------------------------------
(* Properties *)

\* the last call was analyze() and it returned the report now stored
Returned == pc = "analyzed" /\ raised = "" /\ result # <<>>

\* C1: the score of every report analyze produces lies in [0, 100], whatever
\* the password, the wordlists and the common-password set are.
C1_ScoreInRange ==
    result # <<>> => (result[1].score >= 0 /\ result[1].score <= Fix(100))

\* a report whose score was brought down to 100 by the clamp
C1_Witness ==
    /\ Returned
    /\ result[1].score = Fix(100)
    /\ RawScore(entropy_bits(password), LengthBonus(Len(password)),
                result[1].dictionary_match, result[1].common_password_match,
                result[1].repeated_chars \/ result[1].sequence_detected
                    \/ result[1].keyboard_pattern,
                result[1].breached) > Fix(100)

\* C2: common_password_match is reported true exactly when the case-folded
\* password is itself an element of the common-password set (containing an
\* element is not enough), and never when the set is empty.
C2_CommonMatchExact ==
    Returned =>
        /\ result[1].common_password_match <=> (Lower(password) \in common)
        /\ common = {} => ~result[1].common_password_match

\* a match found only through case folding
C2_Witness ==
    /\ Returned
    /\ result[1].common_password_match
    /\ password # Lower(password)
    /\ password \notin common

\* C3: with a positive rate analyze never raises, for a password of any
\* length: it returns a complete report, with charset_size 1 and entropy 0 for
\* the empty password.
C3_AnalyzeNeverRaises ==
    (pc = "analyzed" /\ guesses_per_second.sign > 0) =>
        /\ raised = ""
        /\ result # <<>>
        /\ password = <<>> =>
              (result[1].charset_size = 1 /\ result[1].entropy_bits = 0)

\* C4: a case-folded password that is an element of a non-empty common set is
\* reported as a common-password match and as breached, with score 0 and
\* rating "Very Weak".
C4_CommonPasswordScoresZero ==
    (Returned /\ password = Lower(password) /\ common # {} /\ password \in common) =>
        /\ result[1].common_password_match
        /\ result[1].breached
        /\ result[1].score = 0
        /\ result[1].rating = "Very Weak"

\* a one-character password of the common list, whose entropy alone would leave
\* it above 0 after the dictionary penalty
C4_Witness ==
    /\ Returned
    /\ password = Lower(password)
    /\ password \in common
    /\ Len(password) = 1
    /\ result[1].score = 0
    /\ ~result[1].repeated_chars /\ ~result[1].sequence_detected
    /\ ~result[1].keyboard_pattern

\* C5: an analysis with a rate <= 0 is rejected with InvalidConfiguration: it
\* produces no report and raises nothing else.
C5_NonPositiveRateRejected ==
    (pc = "analyzed" /\ guesses_per_second.sign <= 0) =>
        raised = "InvalidConfiguration"

\* C6: the rating of a report is the label the thresholds give the score of
\* the same report, lower bounds inclusive, and is one of the five labels.
C6_RatingMatchesScore ==
    result # <<>> =>
        LET score == result[1].score
            rating == result[1].rating
        IN  /\ rating \in {"Excellent", "Strong", "Moderate", "Weak", "Very Weak"}
            /\ rating = "Excellent" <=> score >= Fix(85)
            /\ rating = "Strong" <=> (score >= Fix(70) /\ score < Fix(85))
            /\ rating = "Moderate" <=> (score >= Fix(50) /\ score < Fix(70))
            /\ rating = "Weak" <=> (score >= Fix(25) /\ score < Fix(50))
            /\ rating = "Very Weak" <=> score < Fix(25)

\* a report whose score sits on a threshold
C6_Witness ==
    /\ Returned
    /\ result[1].score = Fix(50)
    /\ result[1].rating = "Moderate"

\* the classes as C7 states them
C7_Classes(pw) ==
    [lower |-> \E i \in 1..Len(pw) : pw[i] \in 97..122,
     upper |-> \E i \in 1..Len(pw) : pw[i] \in 65..90,
     digits |-> \E i \in 1..Len(pw) : pw[i] \in 48..57,
     symbols |-> \E i \in 1..Len(pw) :
                    pw[i] \notin (97..122) \cup (65..90) \cup (48..57)]

\* C7: charset_size sums 26, 26, 10 and 32 over four disjoint classes (a-z,
\* A-Z, digits, everything outside the ASCII alphanumerics), each character
\* counting for one class only; it is 1 for the empty password and always
\* between 1 and 94.
C7_CharsetSizeByClass ==
    ret.fn = "charset_size" =>
        LET c == C7_Classes(arg)
            sum == (IF c.lower THEN 26 ELSE 0) + (IF c.upper THEN 26 ELSE 0)
                 + (IF c.digits THEN 10 ELSE 0) + (IF c.symbols THEN 32 ELSE 0)
        IN  /\ ret.val = (IF sum = 0 THEN 1 ELSE sum)
            /\ ret.val >= 1 /\ ret.val <= 94

\* C8: load_wordlist never raises: for a path that is absent or cannot be read
\* it returns the empty set, and otherwise the set of the trimmed, lowercased,
\* non-empty lines.
C8_LoadWordlistNeverRaises ==
    ret.fn = "load_wordlist" =>
        /\ ret.exc = ""
        /\ FS(arg[1]).kind # "file" => ret.val = {}
        /\ FS(arg[1]).kind = "file" =>
              ret.val = {Lower(Strip(l)) :
                            l \in {FS(arg[1]).lines[i] : i \in 1..Len(FS(arg[1]).lines)}}
                        \ {<<>>}

\* C9: analyze called again on the same password, rate, wordlists and common
\* set ends as the call before did, with the identical report, and changes none
\* of the four.
C9_AnalyzeIdempotent ==
    [][(calls >= 1 /\ calls' = calls + 1) =>
          /\ result' = result
          /\ raised' = raised
          /\ UNCHANGED <<password, guesses_per_second, wordlists, common>>]_vars

\* a second call that returned a report
C9_Witness ==
    /\ Returned
    /\ calls = 2

\* C10: repeated_chars is true exactly when some character, whichever it is,
\* stands three times in a row.
C10_RepeatedCharsAnyChar ==
    ret.fn = "has_repeated_chars" =>
        (ret.val <=> \E i \in 1..(Len(arg) - 2) :
                        arg[i] = arg[i + 1] /\ arg[i + 1] = arg[i + 2])

====
